---- MODULE Spec2Model ----
(***************************************************************************)
(* Event finder (src/event_agent.py): the natural-language request parser *)
(* parse_user_input, the Ticketmaster adapter search_events with its tool  *)
(* wrapper, the weather tool open_meteo_weather, and find_events, which    *)
(* ties them to the crew.                                                  *)
(*                                                                         *)
(* Text is a sequence of one-character strings, so that the regular       *)
(* expressions of the parser are evaluated character by character.        *)
(***************************************************************************)
EXTENDS Integers, Sequences, FiniteSets, TLC

(***************************************************************************)
(* Characters                                                              *)
(***************************************************************************)
LowerLetters ==
  <<"a","b","c","d","e","f","g","h","i","j","k","l","m",
    "n","o","p","q","r","s","t","u","v","w","x","y","z">>

UpperLetters ==
  <<"A","B","C","D","E","F","G","H","I","J","K","L","M",
    "N","O","P","Q","R","S","T","U","V","W","X","Y","Z">>

DigitChars == <<"0","1","2","3","4","5","6","7","8","9">>

Range(f) == {f[i] : i \in DOMAIN f}

\* \s of the patterns, over the characters a terminal line can hold
Whitespace == {" ", "\t"}

IsSpace(c) == c \in Whitespace

DigitSet == Range(DigitChars)

IsDigit(c) == c \in DigitSet

\* the class [a-zA-Z\s,] of location_pattern
LocCharSet ==
  Range(LowerLetters) \cup Range(UpperLetters) \cup Whitespace \cup {","}

IsLocChar(c) == c \in LocCharSet

\* str.lower() on one character
UpperSet == Range(UpperLetters)

LowerChar(c) ==
  IF c \in UpperSet
    THEN LowerLetters[CHOOSE i \in DOMAIN UpperLetters : UpperLetters[i] = c]
    ELSE c

\* Lower with the call to lower() forgotten
Lower_not_applied(s) == s

\* str.lower()
Lower(s) == [i \in 1..Len(s) |-> LowerChar(s[i])]

DigitVal(c) == (CHOOSE i \in DOMAIN DigitChars : DigitChars[i] = c) - 1

\* int() of a run of decimal digits
RECURSIVE IntOf(_)
IntOf(s) ==
  IF s = <<>> THEN 0
  ELSE 10 * IntOf(SubSeq(s, 1, Len(s) - 1)) + DigitVal(s[Len(s)])

\* Python's None, told apart from every text (texts hold single characters)
None == <<"None">>

\* truthiness of an optional text: None and "" are false
Truthy(s) == s # None /\ s # <<>>

\* the text t holds the word w at position i
HasAt(t, i, w) ==
  /\ i >= 1
  /\ i + Len(w) - 1 <= Len(t)
  /\ SubSeq(t, i, i + Len(w) - 1) = w

\* the Python test `sub in t` on texts
Contains(t, sub) == \E i \in 1..(Len(t) + 1) : HasAt(t, i, sub)

\* length of the run of whitespace that starts at position i
SpaceRun(t, i) ==
  LET S == {k \in 0..(Len(t) + 1 - i) : \A j \in i..(i + k - 1) : IsSpace(t[j])}
  IN  CHOOSE k \in S : \A m \in S : m <= k

\* str.strip()
Strip(s) ==
  LET keep == {i \in 1..Len(s) : ~IsSpace(s[i])}
  IN  IF keep = {} THEN <<>>
      ELSE LET lo == CHOOSE i \in keep : \A j \in keep : i <= j
               hi == CHOOSE i \in keep : \A j \in keep : j <= i
           IN  SubSeq(s, lo, hi)

(***************************************************************************)
(* parse_user_input: location                                              *)
(*   (?:in|at|near)\s+([a-zA-Z\s,]+?)                                      *)
(*   (?=\s+(?:this|next|tomorrow|today|happening|\d{4}|$)|\s*$)            *)
(***************************************************************************)
s_in == <<"i","n">>
s_at == <<"a","t">>
s_near == <<"n","e","a","r">>
s_this == <<"t","h","i","s">>
s_next == <<"n","e","x","t">>
s_tomorrow == <<"t","o","m","o","r","r","o","w">>
s_today == <<"t","o","d","a","y">>
s_happening == <<"h","a","p","p","e","n","i","n","g">>
s_weekend == <<"w","e","e","k","e","n","d">>
s_week == <<"w","e","e","k">>

\* the n characters from position i are decimal digits (\d{n})
DigitsAt(t, i, n) ==
  /\ i + n - 1 <= Len(t)
  /\ \A j \in i..(i + n - 1) : IsDigit(t[j])

\* (?:in|at|near) at position i: the length it consumes, 0 when it fails.
\* The pattern asks for no word boundary before the letters.
PrepLen(t, i) ==
  IF HasAt(t, i, s_in) THEN 2
  ELSE IF HasAt(t, i, s_at) THEN 2
  ELSE IF HasAt(t, i, s_near) THEN 4
  ELSE 0

\* (?:this|next|tomorrow|today|happening|\d{4}|$) at position q
LocBoundaryAt(t, q) ==
  \/ \E w \in {s_this, s_next, s_tomorrow, s_today, s_happening} : HasAt(t, q, w)
  \/ DigitsAt(t, q, 4)
  \/ q = Len(t) + 1

\* the lookahead (?=\s+(?:...)|\s*$) at position q
LocLookahead(t, q) ==
  LET w == SpaceRun(t, q)
  IN  \/ \E k \in 1..w : LocBoundaryAt(t, q + k)
      \/ q + w = Len(t) + 1

\* The ways the pattern matches with the preposition at position i: <<k, g>>
\* when \s+ takes k characters and the group the g characters after them.
LocSpans(t, i) ==
  LET p == i + PrepLen(t, i)
      w == SpaceRun(t, p)
  IN  {c \in (1..w) \X (1..Len(t)) :
         /\ p + c[1] + c[2] - 1 <= Len(t)
         /\ \A j \in (p + c[1])..(p + c[1] + c[2] - 1) : IsLocChar(t[j])
         /\ LocLookahead(t, p + c[1] + c[2])}

\* The match the backtracking finds first: \s+ is greedy (longest first), the
\* group is lazy (shortest first).
LocFirst(t, i) ==
  LET S == LocSpans(t, i)
  IN  CHOOSE c \in S :
        \A d \in S : c[1] > d[1] \/ (c[1] = d[1] /\ c[2] <= d[2])

\* re.search(location_pattern, t): group(1).strip() of the leftmost match
LocationOf(t) ==
  LET starts == {i \in 1..Len(t) : PrepLen(t, i) > 0 /\ LocSpans(t, i) # {}}
  IN  IF starts = {} THEN None
      ELSE LET i == CHOOSE a \in starts : \A b \in starts : a <= b
               c == LocFirst(t, i)
               s == i + PrepLen(t, i) + c[1]
           IN  Strip(SubSeq(t, s, s + c[2] - 1))

(***************************************************************************)
(* parse_user_input: date                                                  *)
(*   (this\s+(?:weekend|week)|next\s+(?:weekend|week)|tomorrow|today|      *)
(*    \d{4}-\d{2}-\d{2}|\d{2}/\d{2}/\d{4})                                 *)
(***************************************************************************)
s_this_weekend == <<"t","h","i","s"," ","w","e","e","k","e","n","d">>
s_next_weekend == <<"n","e","x","t"," ","w","e","e","k","e","n","d">>
s_this_week == <<"t","h","i","s"," ","w","e","e","k">>
s_next_week == <<"n","e","x","t"," ","w","e","e","k">>

\* first\s+(?:weekend|week) at position i: the length matched, 0 on failure
RelativeLen(t, i, first) ==
  IF ~HasAt(t, i, first) THEN 0
  ELSE LET p  == i + Len(first)
           w  == SpaceRun(t, p)
           ks == {k \in 1..w : HasAt(t, p + k, s_weekend) \/ HasAt(t, p + k, s_week)}
       IN  IF ks = {} THEN 0
           ELSE LET k == CHOOSE a \in ks : \A b \in ks : b <= a
                IN  Len(first) + k
                      + (IF HasAt(t, p + k, s_weekend) THEN Len(s_weekend) ELSE Len(s_week))

\* \d{4}-\d{2}-\d{2} at position i
IsoLen(t, i) ==
  IF /\ DigitsAt(t, i, 4) /\ HasAt(t, i + 4, <<"-">>)
     /\ DigitsAt(t, i + 5, 2) /\ HasAt(t, i + 7, <<"-">>)
     /\ DigitsAt(t, i + 8, 2)
    THEN 10 ELSE 0

\* \d{2}/\d{2}/\d{4} at position i
DmyLen(t, i) ==
  IF /\ DigitsAt(t, i, 2) /\ HasAt(t, i + 2, <<"/">>)
     /\ DigitsAt(t, i + 3, 2) /\ HasAt(t, i + 5, <<"/">>)
     /\ DigitsAt(t, i + 6, 4)
    THEN 10 ELSE 0

\* date_pattern at position i: the alternatives in the order they are written
DateLen(t, i) ==
  IF RelativeLen(t, i, s_this) > 0 THEN RelativeLen(t, i, s_this)
  ELSE IF RelativeLen(t, i, s_next) > 0 THEN RelativeLen(t, i, s_next)
  ELSE IF HasAt(t, i, s_tomorrow) THEN Len(s_tomorrow)
  ELSE IF HasAt(t, i, s_today) THEN Len(s_today)
  ELSE IF IsoLen(t, i) > 0 THEN IsoLen(t, i)
  ELSE DmyLen(t, i)

\* re.search(date_pattern, t): group(1).strip() of the leftmost match, or None
DateStrOf(t) ==
  LET starts == {i \in 1..Len(t) : DateLen(t, i) > 0}
  IN  IF starts = {} THEN None
      ELSE LET i == CHOOSE a \in starts : \A b \in starts : a <= b
           IN  Strip(SubSeq(t, i, i + DateLen(t, i) - 1))

(***************************************************************************)
(* datetime: the proleptic Gregorian calendar, a date is [y, m, d]         *)
(***************************************************************************)
IsLeap(y) == (y % 4 = 0) /\ ((y % 100 # 0) \/ (y % 400 = 0))

DaysInMonth(y, m) ==
  IF m = 2 THEN (IF IsLeap(y) THEN 29 ELSE 28)
  ELSE IF m \in {4, 6, 9, 11} THEN 30
  ELSE 31

\* datetime(y, m, d) exists (MINYEAR is 1)
ValidDate(y, m, d) ==
  /\ y >= 1
  /\ m \in 1..12
  /\ d \in 1..DaysInMonth(y, m)

NextDay(dt) ==
  IF dt.d < DaysInMonth(dt.y, dt.m) THEN [dt EXCEPT !.d = dt.d + 1]
  ELSE IF dt.m < 12 THEN [y |-> dt.y, m |-> dt.m + 1, d |-> 1]
  ELSE [y |-> dt.y + 1, m |-> 1, d |-> 1]

\* dt + timedelta(days=n), n >= 0
RECURSIVE AddDays(_, _)
AddDays(dt, n) == IF n = 0 THEN dt ELSE AddDays(NextDay(dt), n - 1)

RECURSIVE DaysBeforeMonth(_, _)
DaysBeforeMonth(y, m) ==
  IF m = 1 THEN 0 ELSE DaysBeforeMonth(y, m - 1) + DaysInMonth(y, m - 1)

\* date.toordinal(): 0001-01-01 is day 1
Ordinal(dt) ==
  LET p == dt.y - 1
  IN  p * 365 + (p \div 4) - (p \div 100) + (p \div 400)
        + DaysBeforeMonth(dt.y, dt.m) + dt.d

\* date.weekday(): Monday is 0, Sunday is 6
Weekday(dt) == (Ordinal(dt) + 6) % 7

\* decimal digits of n >= 0, without padding
RECURSIVE Decimal(_)
Decimal(n) ==
  IF n < 10 THEN <<DigitChars[n + 1]>>
  ELSE Decimal(n \div 10) \o <<DigitChars[(n % 10) + 1]>>

RECURSIVE ZeroFill(_, _)
ZeroFill(s, width) == IF Len(s) >= width THEN s ELSE ZeroFill(<<"0">> \o s, width)

\* dt.strftime("%Y-%m-%d"). %m and %d are two digits. %Y is handed to the C
\* library: glibc prints the year unpadded, other platforms pad it to four
\* digits; padsYear says which platform runs the program.
Strftime(dt, padsYear) ==
  (IF padsYear THEN ZeroFill(Decimal(dt.y), 4) ELSE Decimal(dt.y))
    \o <<"-">> \o ZeroFill(Decimal(dt.m), 2)
    \o <<"-">> \o ZeroFill(Decimal(dt.d), 2)

\* datetime.strptime(s, "%Y-%m-%d") on a text \d{4}-\d{2}-\d{2}:
\* [error, value]: error stands for ValueError
StrptimeIso(s) ==
  LET y == IntOf(SubSeq(s, 1, 4))
      m == IntOf(SubSeq(s, 6, 7))
      d == IntOf(SubSeq(s, 9, 10))
  IN  [error |-> ~ValidDate(y, m, d), value |-> [y |-> y, m |-> m, d |-> d]]

\* datetime.strptime(s, "%d/%m/%Y") on a text \d{2}/\d{2}/\d{4}
StrptimeDmy(s) ==
  LET d == IntOf(SubSeq(s, 1, 2))
      m == IntOf(SubSeq(s, 4, 5))
      y == IntOf(SubSeq(s, 7, 10))
  IN  [error |-> ~ValidDate(y, m, d), value |-> [y |-> y, m |-> m, d |-> d]]

(***************************************************************************)
(* parse_user_input: the date a matched date_str stands for                *)
(***************************************************************************)
\* DaysUntilWeekend counting to Friday (weekday 4) instead of Saturday
DaysUntilWeekend_to_friday(today) == (4 - Weekday(today)) % 7

\* days_until_weekend = (5 - today.weekday()) % 7
DaysUntilWeekend(today) == (5 - Weekday(today)) % 7

\* The if/elif chain over date_str; [date, warned]: the parsed date (None when
\* absent) and whether the warning was printed.
ResolveDate(date_str, today, padsYear) ==
  IF date_str = s_today THEN
    [date |-> Strftime(today, padsYear), warned |-> FALSE]
  ELSE IF date_str = s_tomorrow THEN
    [date |-> Strftime(AddDays(today, 1), padsYear), warned |-> FALSE]
  ELSE IF Contains(date_str, s_this_weekend) THEN
    [date |-> Strftime(AddDays(today, DaysUntilWeekend(today)), padsYear),
     warned |-> FALSE]
  ELSE IF Contains(date_str, s_next_weekend) THEN
    [date |-> Strftime(AddDays(today, DaysUntilWeekend(today) + 7), padsYear),
     warned |-> FALSE]
  ELSE IF Contains(date_str, s_this_week) THEN
    [date |-> Strftime(today, padsYear), warned |-> FALSE]
  ELSE IF Contains(date_str, s_next_week) THEN
    [date |-> Strftime(AddDays(today, 7), padsYear), warned |-> FALSE]
  ELSE IF Contains(date_str, <<"-">>) THEN
    (IF StrptimeIso(date_str).error
       THEN [date |-> None, warned |-> TRUE]
       ELSE [date |-> Strftime(StrptimeIso(date_str).value, padsYear), warned |-> FALSE])
  ELSE IF Contains(date_str, <<"/">>) THEN
    (IF StrptimeDmy(date_str).error
       THEN [date |-> None, warned |-> TRUE]
       ELSE [date |-> Strftime(StrptimeDmy(date_str).value, padsYear), warned |-> FALSE])
  ELSE [date |-> None, warned |-> FALSE]

(***************************************************************************)
(* parse_user_input: preferences                                           *)
(***************************************************************************)
Music == <<"M","u","s","i","c">>
Sports == <<"S","p","o","r","t","s">>
ArtsAndTheatre == <<"A","r","t","s"," ","&"," ","T","h","e","a","t","r","e">>
Family == <<"F","a","m","i","l","y">>
k_music == <<"m","u","s","i","c">>
k_concert == <<"c","o","n","c","e","r","t">>
k_concerts == <<"c","o","n","c","e","r","t","s">>
k_sports == <<"s","p","o","r","t","s">>
k_theater == <<"t","h","e","a","t","e","r">>
k_theatre == <<"t","h","e","a","t","r","e">>
k_family == <<"f","a","m","i","l","y">>
k_comedy == <<"c","o","m","e","d","y">>
k_musical == <<"m","u","s","i","c","a","l">>
k_dance == <<"d","a","n","c","e">>

\* the dict preference_keywords, in insertion order
preference_keywords ==
  << <<k_music, Music>>, <<k_concert, Music>>, <<k_concerts, Music>>,
     <<k_sports, Sports>>, <<k_theater, ArtsAndTheatre>>,
     <<k_theatre, ArtsAndTheatre>>, <<k_family, Family>>,
     <<k_comedy, ArtsAndTheatre>>, <<k_musical, ArtsAndTheatre>>,
     <<k_dance, ArtsAndTheatre>> >>

\* the loop over preference_keywords.items(): the first keyword found in the
\* text decides, by `keyword in text_lower`
PreferenceOf(t) ==
  LET hits == {i \in DOMAIN preference_keywords : Contains(t, preference_keywords[i][1])}
  IN  IF hits = {} THEN None
      ELSE preference_keywords[CHOOSE i \in hits : \A j \in hits : i <= j][2]

(***************************************************************************)
(* parse_user_input                                                        *)
(***************************************************************************)
parse_user_input(user_input, today, padsYear) ==
  LET text_lower == Lower(user_input)
      date_str   == DateStrOf(text_lower)
      resolved   == IF date_str = None
                      THEN [date |-> None, warned |-> FALSE]
                      ELSE ResolveDate(date_str, today, padsYear)
  IN  [location    |-> LocationOf(text_lower),
       date        |-> resolved.date,
       preferences |-> PreferenceOf(text_lower),
       warned      |-> resolved.warned]

(***************************************************************************)
(* search_events: the request                                              *)
(***************************************************************************)
s_germany == <<"g","e","r","m","a","n","y">>
s_deutschland == <<"d","e","u","t","s","c","h","l","a","n","d">>
s_T000000Z == <<"T","0","0",":","0","0",":","0","0","Z">>
s_T235959Z == <<"T","2","3",":","5","9",":","5","9","Z">>

API_KEY == "TICKETMASTER_API_KEY"

\* JSON null, and Python's None inside a JSON value
JsonNull == "null"

\* the empty JSON object {}
EmptyObj == [k \in {} |-> JsonNull]

\* dict.get(k, default)
Get(d, k, default) == IF k \in DOMAIN d THEN d[k] ELSE default

\* BuildParams with the end of the window set to the start of the day
BuildParams_end_is_start(location, date, preferences) ==
  [apikey |-> API_KEY, sort |-> "relevance,desc", size |-> 10]
    @@ (IF Truthy(location) /\ Lower(location) \in {s_germany, s_deutschland}
          THEN [countryCode |-> "DE"]
          ELSE [city |-> location])
    @@ (IF Truthy(date)
          THEN [startDateTime |-> date \o s_T000000Z,
                endDateTime   |-> date \o s_T000000Z]
          ELSE EmptyObj)
    @@ (IF Truthy(preferences)
          THEN [classificationName |-> preferences]
          ELSE EmptyObj)

\* the dict params of the GET; a key that is not set is not in its domain
BuildParams(location, date, preferences) ==
  [apikey |-> API_KEY, sort |-> "relevance,desc", size |-> 10]
    @@ (IF Truthy(location) /\ Lower(location) \in {s_germany, s_deutschland}
          THEN [countryCode |-> "DE"]
          ELSE [city |-> location])
    @@ (IF Truthy(date)
          THEN [startDateTime |-> date \o s_T000000Z,
                endDateTime   |-> date \o s_T235959Z]
          ELSE EmptyObj)
    @@ (IF Truthy(preferences)
          THEN [classificationName |-> preferences]
          ELSE EmptyObj)

(***************************************************************************)
(* search_events: the response mapping                                     *)
(***************************************************************************)
\* f"{min_price} - {max_price} {currency}" of the first price range
PriceStr(pr) ==
  <<Get(pr, "min", "N/A"), " - ", Get(pr, "max", "N/A"), " ", Get(pr, "currency", "USD")>>

\* The exception the loop body raises on an event, "none" when it maps it:
\* event['dates']['start'], event['dates']['status'] and
\* event['_embedded']['venues'][0] are indexed, not read with get.
EventRaises(event) ==
  IF "dates" \notin DOMAIN event THEN "KeyError"
  ELSE IF "start" \notin DOMAIN event["dates"] THEN "KeyError"
  ELSE IF "status" \notin DOMAIN event["dates"] THEN "KeyError"
  ELSE IF "_embedded" \notin DOMAIN event THEN "KeyError"
  ELSE IF "venues" \notin DOMAIN event["_embedded"] THEN "KeyError"
  ELSE IF Len(event["_embedded"]["venues"]) = 0 THEN "IndexError"
  ELSE "none"

\* FormatEvent taking the price from the last price range, not the first
FormatEvent_last_tier(event) ==
  LET venue == event["_embedded"]["venues"][1]
      prs   == Get(event, "priceRanges", <<>>)
  IN  [name        |-> Get(event, "name", "No event name"),
       date        |-> Get(event["dates"]["start"], "localDate", "TBA"),
       time        |-> Get(event["dates"]["start"], "localTime", "TBA"),
       description |-> Get(event, "description", "No event description"),
       status      |-> Get(event["dates"]["status"], "code", "Unknown"),
       ticket_url  |-> Get(event, "url", "Not available"),
       price_range |-> IF Len(prs) > 0 THEN PriceStr(prs[Len(prs)])
                       ELSE <<"Price not available">>,
       venue       |-> Get(venue, "name", "Unknown venue"),
       city        |-> Get(Get(venue, "city", EmptyObj), "name", "N/A"),
       state       |-> Get(Get(venue, "state", EmptyObj), "name", "N/A"),
       latitude    |-> Get(Get(venue, "location", EmptyObj), "latitude", JsonNull),
       longitude   |-> Get(Get(venue, "location", EmptyObj), "longitude", JsonNull)]

\* formatted_event, for an event the loop body does not raise on
FormatEvent(event) ==
  LET venue == event["_embedded"]["venues"][1]
      prs   == Get(event, "priceRanges", <<>>)
  IN  [name        |-> Get(event, "name", "No event name"),
       date        |-> Get(event["dates"]["start"], "localDate", "TBA"),
       time        |-> Get(event["dates"]["start"], "localTime", "TBA"),
       description |-> Get(event, "description", "No event description"),
       status      |-> Get(event["dates"]["status"], "code", "Unknown"),
       ticket_url  |-> Get(event, "url", "Not available"),
       price_range |-> IF Len(prs) > 0 THEN PriceStr(prs[1])
                       ELSE <<"Price not available">>,
       venue       |-> Get(venue, "name", "Unknown venue"),
       city        |-> Get(Get(venue, "city", EmptyObj), "name", "N/A"),
       state       |-> Get(Get(venue, "state", EmptyObj), "name", "N/A"),
       latitude    |-> Get(Get(venue, "location", EmptyObj), "latitude", JsonNull),
       longitude   |-> Get(Get(venue, "location", EmptyObj), "longitude", JsonNull)]

\* json.dumps of a list
JsonList(items) == [kind |-> "list", items |-> items]

\* nothing was returned: the call raised
NoReturn == [kind |-> "none", items |-> <<>>]

\* What requests.get / raise_for_status / response.json() can do:
\*   ConnectionError   the GET fails
\*   HTTPError         a 4xx/5xx status, raised by raise_for_status
\*   JSONDecodeError   the body is not JSON, raised by response.json()
\*   JSON              the body parses to the object `data`
\* The three errors are subclasses of requests.exceptions.RequestException.
RequestExceptions == {"ConnectionError", "HTTPError", "JSONDecodeError"}

\* search_events without the test `'_embedded' not in data`: data['_embedded']
\* is then read by index and raises KeyError when the key is absent
search_events_unguarded(location, date, preferences, upstream) ==
  LET params == BuildParams(location, date, preferences)
      data   == upstream.data
      events == Get(data["_embedded"], "events", <<>>)
      bad    == {i \in 1..Len(events) : EventRaises(events[i]) # "none"}
  IN  IF upstream.kind \in RequestExceptions THEN
        [params |-> params, raised |-> "none", returned |-> JsonList(<<>>),
         printed |-> <<"Error fetching events">>]
      ELSE IF "_embedded" \notin DOMAIN data THEN
        [params |-> params, raised |-> "KeyError", returned |-> NoReturn,
         printed |-> <<>>]
      ELSE IF bad # {} THEN
        [params |-> params,
         raised |-> EventRaises(events[CHOOSE i \in bad : \A j \in bad : i <= j]),
         returned |-> NoReturn, printed |-> <<>>]
      ELSE
        [params |-> params, raised |-> "none",
         returned |-> JsonList([i \in 1..Len(events) |-> FormatEvent(events[i])]),
         printed |-> <<>>]

\* search_events(location, date, preferences) against an upstream outcome:
\* [params, raised, returned, printed]
search_events(location, date, preferences, upstream) ==
  LET params == BuildParams(location, date, preferences)
      data   == upstream.data
      events == Get(data["_embedded"], "events", <<>>)
      bad    == {i \in 1..Len(events) : EventRaises(events[i]) # "none"}
  IN  IF upstream.kind \in RequestExceptions THEN
        [params |-> params, raised |-> "none", returned |-> JsonList(<<>>),
         printed |-> <<"Error fetching events">>]
      ELSE IF "_embedded" \notin DOMAIN data THEN
        [params |-> params, raised |-> "none", returned |-> JsonList(<<>>),
         printed |-> <<>>]
      ELSE IF bad # {} THEN
        [params |-> params,
         raised |-> EventRaises(events[CHOOSE i \in bad : \A j \in bad : i <= j]),
         returned |-> NoReturn, printed |-> <<>>]
      ELSE
        [params |-> params, raised |-> "none",
         returned |-> JsonList([i \in 1..Len(events) |-> FormatEvent(events[i])]),
         printed |-> <<>>]

\* the tool ticketmaster_event_search: [returned, printed]
ticketmaster_event_search(location, date, preferences, upstream) ==
  LET r == search_events(location, date, preferences, upstream)
  IN  IF r.raised = "none"
        THEN [returned |-> r.returned, printed |-> r.printed]
        ELSE [returned |-> JsonList(<<>>),
              printed  |-> r.printed \o <<"Error in ticketmaster_event_search">>]

(***************************************************************************)
(* The upstream: what the events endpoint may answer                       *)
(***************************************************************************)
MaxEvents == 2

Without(obj, k) == [x \in DOMAIN obj \ {k} |-> obj[x]]

With(obj, k, v) == (k :> v) @@ obj

FullDates ==
  [start  |-> [localDate |-> "2025-02-15", localTime |-> "19:30:00"],
   status |-> [code |-> "onsale"]]

FullVenue ==
  [name     |-> "Arena",
   city     |-> [name |-> "Berlin"],
   state    |-> [name |-> "BE"],
   location |-> [latitude |-> "52.5", longitude |-> "13.4"]]

FullEvent(name) ==
  [name        |-> name,
   dates       |-> FullDates,
   url         |-> "https://tm.example/e",
   priceRanges |-> << [min |-> "20.0", max |-> "80.0", currency |-> "EUR"],
                      [min |-> "150.0", max |-> "300.0", currency |-> "EUR"] >>,
   _embedded   |-> [venues |-> <<FullVenue>>]]

\* a complete event, and the event with one part left out at a time
EventShapes ==
  LET e == FullEvent("Gig")
  IN  { e, FullEvent("Play"),
        Without(e, "name"),
        Without(e, "url"),
        Without(e, "priceRanges"),
        With(e, "priceRanges", <<>>),
        With(e, "priceRanges", <<[min |-> "20.0"]>>),
        Without(e, "dates"),
        With(e, "dates", Without(FullDates, "start")),
        With(e, "dates", Without(FullDates, "status")),
        With(e, "dates", [start |-> EmptyObj, status |-> EmptyObj]),
        Without(e, "_embedded"),
        With(e, "_embedded", EmptyObj),
        With(e, "_embedded", [venues |-> <<>>]),
        With(e, "_embedded", [venues |-> <<EmptyObj>>]) }

RECURSIVE EventLists(_)
EventLists(n) ==
  IF n = 0 THEN {<<>>}
  ELSE EventLists(n - 1)
         \cup {Append(l, e) : l \in {x \in EventLists(n - 1) : Len(x) = n - 1},
                              e \in EventShapes}

\* the JSON objects a 200 response may carry
Payloads ==
  {[page |-> EmptyObj], [_embedded |-> EmptyObj]}
    \cup {[_embedded |-> [events |-> l]] : l \in EventLists(MaxEvents)}

Upstreams ==
  {[kind |-> k, data |-> EmptyObj] : k \in RequestExceptions}
    \cup {[kind |-> "JSON", data |-> d] : d \in Payloads}

(***************************************************************************)
(* open_meteo_weather                                                      *)
(***************************************************************************)
\* the month of %m, as _strptime reads it: 1[0-2]|0[1-9]|[1-9]
MonthToken(t) ==
  \/ Len(t) = 2 /\ t[1] = "1" /\ t[2] \in {"0", "1", "2"}
  \/ Len(t) = 2 /\ t[1] = "0" /\ IsDigit(t[2]) /\ t[2] # "0"
  \/ Len(t) = 1 /\ IsDigit(t[1]) /\ t[1] # "0"

\* the day of %d, as _strptime reads it: 3[01]|[12]\d|0[1-9]|[1-9]| [1-9]
DayToken(t) ==
  \/ Len(t) = 2 /\ t[1] = "3" /\ t[2] \in {"0", "1"}
  \/ Len(t) = 2 /\ t[1] \in {"1", "2"} /\ IsDigit(t[2])
  \/ Len(t) = 2 /\ t[1] \in {"0", " "} /\ IsDigit(t[2]) /\ t[2] # "0"
  \/ Len(t) = 1 /\ IsDigit(t[1]) /\ t[1] # "0"

\* the lengths <<ml, dl>> of month and day with which the whole of s matches
\* \d\d\d\d-(month)-(day)
YmdSplits(s) ==
  {sp \in {1, 2} \X {1, 2} :
     /\ Len(s) = 6 + sp[1] + sp[2]
     /\ DigitsAt(s, 1, 4)
     /\ s[5] = "-"
     /\ MonthToken(SubSeq(s, 6, 5 + sp[1]))
     /\ s[6 + sp[1]] = "-"
     /\ DayToken(SubSeq(s, 7 + sp[1], Len(s)))}

\* datetime.strptime(date, "%Y-%m-%d") on any text: TRUE when it raises
\* ValueError (no match, text left over, or no such day in the calendar)
StrptimeRaises(s) ==
  \/ YmdSplits(s) = {}
  \/ LET sp == CHOOSE x \in YmdSplits(s) : TRUE
         dt == SubSeq(s, 7 + sp[1], Len(s))
     IN  ~ValidDate(IntOf(SubSeq(s, 1, 4)),
                    IntOf(SubSeq(s, 6, 5 + sp[1])),
                    IntOf(IF dt[1] = " " THEN Tail(dt) ELSE dt))

\* the series asked for in params["daily"], in the order weather_info reads them
WeatherSeries ==
  <<"temperature_2m_max", "temperature_2m_min", "precipitation_sum", "rain_sum",
    "snowfall_sum">>

\* the dict params of the forecast GET
WeatherParams(latitude, longitude, date) ==
  [latitude |-> latitude, longitude |-> longitude,
   daily |-> "temperature_2m_max,temperature_2m_min,precipitation_sum,rain_sum,snowfall_sum",
   start_date |-> date, end_date |-> date, timezone |-> "auto"]

\* json.dumps({"error": message})
JsonError(message) == [kind |-> "error", items |-> <<message>>]

\* json.dumps(weather_info)
JsonObject(obj) == [kind |-> "object", items |-> <<obj>>]

\* daily[k][0] if daily[k] else None, for a series that is present
FirstOrNull(series) == IF Len(series) > 0 THEN <<series[1]>> ELSE <<>>

\* weather_info; a value is <<v>>, or <<>> for None
WeatherInfo(date, daily) ==
  [k \in Range(WeatherSeries) |-> FirstOrNull(daily[k])] @@ [date |-> date]

\* open_meteo_weather(latitude, longitude, date) against an upstream outcome:
\* [called, params, raised, returned]; called tells whether the GET was sent
open_meteo_weather(latitude, longitude, date, up) ==
  LET params == WeatherParams(latitude, longitude, date)
      data   == up.data
      daily  == data["daily"]
  IN  IF StrptimeRaises(date) THEN
        [called |-> FALSE, params |-> params, raised |-> "none",
         returned |-> JsonError("Invalid date format or TBA.")]
      ELSE IF up.kind \in RequestExceptions THEN
        [called |-> TRUE, params |-> params, raised |-> "none",
         returned |-> JsonError(up.kind)]
      ELSE IF "daily" \notin DOMAIN data THEN
        [called |-> TRUE, params |-> params, raised |-> "none",
         returned |-> JsonError("No daily weather data.")]
      ELSE IF \E k \in Range(WeatherSeries) : k \notin DOMAIN daily THEN
        [called |-> TRUE, params |-> params, raised |-> "KeyError",
         returned |-> NoReturn]
      ELSE
        [called |-> TRUE, params |-> params, raised |-> "none",
         returned |-> JsonObject(WeatherInfo(date, daily))]

\* what a series of the answer may be: a list with the value of the day, or an
\* empty list
SeriesValues == {<<"7.5">>, <<>>}

\* the 'daily' objects: every subset of the series, each with every value
DailyObjects ==
  UNION {[ks -> SeriesValues] : ks \in SUBSET Range(WeatherSeries)}

\* the JSON objects a 200 answer of the forecast endpoint may carry
WeatherPayloads ==
  {[latitude |-> "52.5"]} \cup {[latitude |-> "52.5", daily |-> d] : d \in DailyObjects}

WeatherUpstreams ==
  {[kind |-> k, data |-> EmptyObj] : k \in RequestExceptions}
    \cup {[kind |-> "JSON", data |-> d] : d \in WeatherPayloads}

(***************************************************************************)
(* State                                                                   *)
(***************************************************************************)
VARIABLES
  user_input,   \* the line read from the terminal
  today,        \* the date datetime.now() gives
  padsYear,     \* whether the platform's strftime pads %Y to four digits
  pc,           \* where the program is
  inputs,       \* what parse_user_input returned
  task,         \* the Task find_events created
  response,     \* what find_events returned
  args,         \* the arguments of the tool call
  upstream,     \* what the endpoint did on the last GET
  requests,     \* the params of the GETs sent, in order
  outcome,      \* what search_events did on the last call
  tool_result,  \* what ticketmaster_event_search returned to the agent
  printed       \* the diagnostics printed, in order

vars ==
  <<user_input, today, padsYear, pc, inputs, task, response, args, upstream,
    requests, outcome, tool_result, printed>>

NoInputs == [location |-> None, date |-> None, preferences |-> None, warned |-> FALSE]

NoTask == [created |-> FALSE, location |-> None, date |-> None, preferences |-> None]

NoResponse == [kind |-> "none", text |-> ""]

NoArgs == [location |-> None, date |-> None, preferences |-> None]

NoUpstream == [kind |-> "none", data |-> EmptyObj]

NoOutcome == [raised |-> "none", returned |-> NoReturn]

\* the state before anything ran, for a given line, clock and platform
Fresh(line, now, pads, at, a) ==
  /\ user_input = line
  /\ today = now
  /\ padsYear = pads
  /\ pc = at
  /\ inputs = NoInputs
  /\ task = NoTask
  /\ response = NoResponse
  /\ args = a
  /\ upstream = NoUpstream
  /\ requests = <<>>
  /\ outcome = NoOutcome
  /\ tool_result = NoReturn
  /\ printed = <<>>

(***************************************************************************)
(* The adapter on its own: one call of the tool                            *)
(***************************************************************************)
w_berlin == <<"b","e","r","l","i","n">>
w_Germany == <<"G","e","r","m","a","n","y">>
w_iso == <<"2","0","2","5","-","0","2","-","1","5">>

TodayBases == {[y |-> 2024, m |-> 2, d |-> 20], [y |-> 2025, m |-> 12, d |-> 20]}

ArgSets ==
  [location : {w_berlin, w_Germany}, date : {None, w_iso}, preferences : {None, Music}]

\* the effect of one call ticketmaster_event_search(a.location, a.date,
\* a.preferences) when the endpoint does `up`
ToolCall(a, up) ==
  LET r == search_events(a.location, a.date, a.preferences, up)
      t == ticketmaster_event_search(a.location, a.date, a.preferences, up)
  IN  /\ args' = a
      /\ upstream' = up
      /\ requests' = Append(requests, r.params)
      /\ outcome' = [raised |-> r.raised, returned |-> r.returned]
      /\ tool_result' = t.returned
      /\ printed' = printed \o t.printed

AdapterInit ==
  \E a \in ArgSets, now \in TodayBases, pads \in BOOLEAN :
    Fresh(<<>>, now, pads, "search", a)

CallSearch ==
  /\ pc = "search"
  /\ \E up \in Upstreams : ToolCall(args, up)
  /\ pc' = "returned"
  /\ UNCHANGED <<user_input, today, padsYear, inputs, task, response>>

AdapterNext == CallSearch

AdapterSpec == AdapterInit /\ [][AdapterNext]_vars

(***************************************************************************)
(* The parser on its own: one call of parse_user_input                     *)
(***************************************************************************)
MaxWords == 3

MaxDayOffset == 13

w_what == <<"w","h","a","t">>
w_events == <<"e","v","e","n","t","s">>
w_austin == <<"a","u","s","t","i","n",",">>
w_texas == <<"t","e","x","a","s">>
w_Berlin == <<"B","e","r","l","i","n">>
w_dmy == <<"1","5","/","0","2","/","2","0","2","5">>
w_badiso == <<"2","0","2","5","-","1","3","-","0","1">>
w_baddmy == <<"3","1","/","0","2","/","2","0","2","5">>
w_oldiso == <<"0","9","9","9","-","1","2","-","3","1">>
l_scenario == <<"F","i","n","d"," ","m","u","s","i","c"," ","e","v","e","n","t","s"," ","i","n"," ","B","e","r","l","i","n"," ","n","e","x","t"," ","w","e","e","k">>
l_events_in_Berlin == <<"e","v","e","n","t","s"," ","i","n"," ","B","e","r","l","i","n"," ">>

\* The words a line is made of. The empty word stands for a second blank
\* between two words (or a blank at an end of the line).
Words ==
  { <<>>, w_what, w_events, s_in, s_near, w_berlin, w_Berlin, w_austin, w_texas,
    s_this, s_next, s_week, s_weekend, s_today, s_tomorrow,
    k_music, k_musical, k_concerts, k_sports, k_family,
    w_iso, w_dmy, w_badiso, w_baddmy, w_oldiso }

\* the lines of 1..n words, one blank between two words
RECURSIVE Lines(_)
Lines(n) ==
  IF n = 1 THEN Words
  ELSE Lines(n - 1) \cup {l \o <<" ">> \o w : l \in Lines(n - 1), w \in Words}

\* the dates the clock may show: two weeks from each base, across a leap day
\* and across the end of a year
Todays == {AddDays(b, k) : b \in TodayBases, k \in 0..MaxDayOffset}

\* the relative phrases of date_pattern, each with one blank
DatePhrases ==
  {s_today, s_tomorrow, s_this_week, s_next_week, s_this_weekend, s_next_weekend}

\* the scenario line, and a request for each relative phrase
DateLines == {l_scenario} \cup {l_events_in_Berlin \o ph : ph \in DatePhrases}

ParserInit ==
  \E line \in Lines(MaxWords), now \in TodayBases, pads \in BOOLEAN :
    Fresh(line, now, pads, "parse", NoArgs)

DateInit ==
  \E line \in DateLines, now \in Todays, pads \in BOOLEAN :
    Fresh(line, now, pads, "parse", NoArgs)

\* inputs = parse_user_input(user_input)
CallParse ==
  /\ pc = "parse"
  /\ inputs' = parse_user_input(user_input, today, padsYear)
  /\ printed' = IF inputs'.warned THEN <<"Warning: Could not parse date">> ELSE <<>>
  /\ pc' = "parsed"
  /\ UNCHANGED <<user_input, today, padsYear, task, response, args, upstream,
                 requests, outcome, tool_result>>

ParserNext == CallParse

ParserSpec == ParserInit /\ [][ParserNext]_vars

DateSpec == DateInit /\ [][ParserNext]_vars

(***************************************************************************)
(* The weather tool on its own: one call of open_meteo_weather             *)
(***************************************************************************)
w_TBA == <<"T","B","A">>
w_noday == <<"2","0","2","5","-","0","2","-","3","0">>
w_short == <<"2","0","2","5","-","2","-","5">>
w_spaced == <<"2","0","2","5","-","0","2","-"," ","5">>
w_stamp == <<"2","0","2","5","-","0","2","-","1","5","T","1","9",":","3","0">>
w_year0 == <<"0","0","0","0","-","0","1","-","0","1">>
w_leap == <<"2","0","2","4","-","0","2","-","2","9">>

\* the dates the agent may pass: the date of an event record ("TBA" when the
\* event had none) or a text of its own
WeatherDates ==
  {w_iso, w_leap, w_TBA, w_noday, w_badiso, w_dmy, w_short, w_spaced, w_stamp,
   w_year0, <<>>}

WeatherArgSets ==
  [latitude : {"52.5", "30.27"}, longitude : {"13.4"}, date : WeatherDates]

WeatherInit ==
  \E a \in WeatherArgSets, now \in TodayBases, pads \in BOOLEAN :
    Fresh(<<>>, now, pads, "weather", a)

\* one call open_meteo_weather(args.latitude, args.longitude, args.date); the
\* endpoint is reached only when the date passed strptime
CallWeather ==
  /\ pc = "weather"
  /\ \E up \in WeatherUpstreams :
       LET r == open_meteo_weather(args.latitude, args.longitude, args.date, up)
       IN  /\ upstream' = IF r.called THEN up ELSE upstream
           /\ requests' = IF r.called THEN Append(requests, r.params) ELSE requests
           /\ outcome' = [raised |-> r.raised, returned |-> r.returned]
           /\ tool_result' = r.returned
  /\ pc' = "weather_returned"
  /\ UNCHANGED <<user_input, today, padsYear, inputs, task, response, args, printed>>

WeatherNext == CallWeather

WeatherSpec == WeatherInit /\ [][WeatherNext]_vars

(***************************************************************************)
(* The program: find_events on one line, the crew calling the tool         *)
(***************************************************************************)
MaxToolCalls == 1

\* the words of the lines find_events is run on
RunWords == {s_in, w_what, w_berlin, w_Germany, k_music, s_today}

RECURSIVE RunLines(_)
RunLines(n) ==
  IF n = 1 THEN RunWords
  ELSE RunLines(n - 1) \cup {l \o <<" ">> \o w : l \in RunLines(n - 1), w \in RunWords}

LocationRequired ==
  [kind |-> "error", text |-> "Location is required. Please specify a city or location."]

Init ==
  \E line \in RunLines(MaxWords), now \in TodayBases, pads \in BOOLEAN :
    Fresh(line, now, pads, "find_events", NoArgs)

\* find_events up to crew.kickoff(): parse, check the location, create the
\* task and the crew
FindEvents ==
  /\ pc = "find_events"
  /\ inputs' = parse_user_input(user_input, today, padsYear)
  /\ printed' = IF inputs'.warned THEN <<"Warning: Could not parse date">> ELSE <<>>
  /\ IF ~Truthy(inputs'.location)
       THEN /\ response' = LocationRequired
            /\ task' = task
            /\ pc' = "done"
       ELSE /\ task' = [created     |-> TRUE,
                        location    |-> inputs'.location,
                        date        |-> inputs'.date,
                        preferences |-> inputs'.preferences]
            /\ response' = response
            /\ pc' = "kickoff"
  /\ UNCHANGED <<user_input, today, padsYear, args, upstream, requests, outcome,
                 tool_result>>

\* during crew.kickoff() the agent calls ticketmaster_event_search with what
\* the task description names
AgentSearch ==
  /\ pc = "kickoff"
  /\ Len(requests) < MaxToolCalls
  /\ \E up \in Upstreams :
       ToolCall([location |-> task.location, date |-> task.date,
                 preferences |-> task.preferences], up)
  /\ UNCHANGED <<user_input, today, padsYear, pc, inputs, task, response>>

\* crew.kickoff() returns and find_events returns result.raw
AgentFinish ==
  /\ pc = "kickoff"
  /\ response' = [kind |-> "raw", text |-> "CrewOutput.raw"]
  /\ pc' = "done"
  /\ UNCHANGED <<user_input, today, padsYear, inputs, task, args, upstream,
                 requests, outcome, tool_result, printed>>

Next == FindEvents \/ AgentSearch \/ AgentFinish

Spec == Init /\ [][Next]_vars

(***************************************************************************)
(* Properties                                                              *)
(***************************************************************************)
\* the word w stands at position i of t, blanks or the ends of t around it
IsWordAt(t, i, w) ==
  /\ HasAt(t, i, w)
  /\ (i = 1 \/ IsSpace(t[i - 1]))
  /\ (i + Len(w) > Len(t) \/ IsSpace(t[i + Len(w)]))

\* t holds a location phrase: the word in, at or near, and a word after it
HasLocationPhrase(t) ==
  \E i \in 1..Len(t) : \E w \in {s_in, s_at, s_near} :
    /\ IsWordAt(t, i, w)
    /\ \E j \in (i + Len(w))..Len(t) : ~IsSpace(t[j])

\* C1: a line without a location phrase makes find_events return the error
\* object "Location is required...", with no task created, no kickoff and no
\* GET sent.
C1_NoLocationPhraseIsRefused ==
  (pc # "find_events" /\ ~HasLocationPhrase(Lower(user_input)))
    => /\ pc = "done"
       /\ response = LocationRequired
       /\ task = NoTask
       /\ requests = <<>>

\* C2: search_events never raises: whatever the endpoint does, one GET is sent
\* and a JSON list is returned, empty when the call or the parsing failed.
C2_SearchEventsNeverRaises ==
  pc = "returned"
    => /\ outcome.raised = "none"
       /\ Len(requests) = 1
       /\ outcome.returned.kind = "list"
       /\ (upstream.kind # "JSON" => outcome.returned.items = <<>>)

\* the keys every record of the result has
RecordKeys ==
  {"name", "date", "time", "status", "ticket_url", "price_range", "venue",
   "city", "state", "latitude", "longitude"}

\* the value at a path of keys, or the default when a key of the path is absent
RECURSIVE AtPath(_, _, _)
AtPath(obj, path, default) ==
  IF path = <<>> THEN obj
  ELSE IF Head(path) \notin DOMAIN obj THEN default
  ELSE AtPath(obj[Head(path)], Tail(path), default)

\* the first venue of an event, {} when it has none
FirstVenue(event) ==
  LET vs == AtPath(event, <<"_embedded", "venues">>, <<>>)
  IN  IF Len(vs) = 0 THEN EmptyObj ELSE vs[1]

\* a record maps an event field by field, with the documented defaults
MapsWithDefaults(rec, event) ==
  /\ RecordKeys \subseteq DOMAIN rec
  /\ ("name" \in DOMAIN event => rec.name = event["name"])
  /\ rec.date = AtPath(event, <<"dates", "start", "localDate">>, "TBA")
  /\ rec.time = AtPath(event, <<"dates", "start", "localTime">>, "TBA")
  /\ rec.status = AtPath(event, <<"dates", "status", "code">>, "Unknown")
  /\ rec.ticket_url = AtPath(event, <<"url">>, "Not available")
  /\ (Len(AtPath(event, <<"priceRanges">>, <<>>)) = 0
        => rec.price_range = <<"Price not available">>)
  /\ rec.city = AtPath(FirstVenue(event), <<"city", "name">>, "N/A")
  /\ rec.state = AtPath(FirstVenue(event), <<"state", "name">>, "N/A")
  /\ rec.latitude = AtPath(FirstVenue(event), <<"location", "latitude">>, JsonNull)
  /\ rec.longitude = AtPath(FirstVenue(event), <<"location", "longitude">>, JsonNull)

\* C3: a response with n events gives n records in the same order, each with
\* every key, a field missing upstream replaced by its default instead of
\* failing the whole response.
C3_MappingDegradesFieldByField ==
  (pc = "returned" /\ upstream.kind = "JSON"
     /\ "_embedded" \in DOMAIN upstream.data
     /\ "events" \in DOMAIN upstream.data["_embedded"])
    => LET events == upstream.data["_embedded"]["events"]
           items  == outcome.returned.items
       IN  /\ outcome.returned.kind = "list"
           /\ Len(items) = Len(events)
           /\ \A i \in 1..Len(events) : MapsWithDefaults(items[i], events[i])

BoundaryTokens == {s_this, s_next, s_tomorrow, s_today, s_happening}

\* x is a place phrase: letters, blanks and commas, not blank, and nothing
\* temporal in it
IsPlace(x) ==
  /\ \A j \in 1..Len(x) : IsLocChar(x[j])
  /\ Strip(x) # <<>>
  /\ \A w \in BoundaryTokens : ~Contains(x, w)

\* d is a literal date, YYYY-MM-DD or DD/MM/YYYY
IsDateLiteral(d) == Len(d) = 10 /\ (IsoLen(d, 1) = 10 \/ DmyLen(d, 1) = 10)

\* C4: the location is the place phrase X after the word "in": X trimmed and
\* lower-cased when X ends the line, X alone when a boundary token or a
\* literal date follows it, whatever text stands before the preposition.
C4_LocationIsThePlaceAfterIn ==
  pc = "parsed"
    => LET t == Lower(user_input)
       IN  \A i \in 1..Len(t) :
             (/\ IsWordAt(t, i, s_in)
              /\ i + 2 <= Len(t)
              /\ \A j \in 1..(i - 1) : ~IsWordAt(t, j, s_in))
               => LET rest == SubSeq(t, i + 3, Len(t))
                  IN  /\ IsPlace(rest) => inputs.location = Strip(rest)
                      /\ \A n \in 1..(Len(rest) - 1) :
                           (/\ IsPlace(SubSeq(rest, 1, n))
                            /\ IsSpace(rest[n + 1])
                            /\ \/ \E w \in BoundaryTokens : IsWordAt(rest, n + 2, w)
                               \/ IsDateLiteral(SubSeq(rest, n + 2, Len(rest))))
                             => inputs.location = Strip(SubSeq(rest, 1, n))

\* C5 as stated: "Find music events in Berlin next week" parses to the
\* location "Berlin", the date of today + 7 days and the category Music.
C5_ScenarioAsStated ==
  (pc = "parsed" /\ user_input = l_scenario)
    => /\ inputs.location = w_Berlin
       /\ inputs.date = Strftime(AddDays(today, 7), TRUE)
       /\ inputs.preferences = Music

\* C5, amended: "Find music events in Berlin next week" parses to the
\* lower-cased location "berlin", the date of today + 7 days as YYYY-MM-DD
\* and the category Music.
C5_ScenarioLowerCased ==
  (pc = "parsed" /\ user_input = l_scenario)
    => /\ inputs.location = w_berlin
       /\ inputs.date = Strftime(AddDays(today, 7), TRUE)
       /\ inputs.preferences = Music

\* the scenario line parsed on a day whose seventh day after lies in the next
\* month
C5_Witness ==
  /\ pc = "parsed"
  /\ user_input = l_scenario
  /\ inputs.location = w_berlin
  /\ inputs.preferences = Music
  /\ inputs.date = <<"2","0","2","4","-","0","3","-","0","2">>

\* the date of the first day of the given weekday on or after the day `from`
\* (Monday is 0, Friday 4, Saturday 5), `ahead` weeks later
WeekdayOnOrAfter(from, weekday, ahead) ==
  LET k == CHOOSE d \in 0..6 : Weekday(AddDays(from, d)) = weekday
  IN  Strftime(AddDays(from, k + 7 * ahead), TRUE)

\* C6 as stated: "this weekend" is the first Friday on or after today, "next
\* weekend" the Friday 7 days after that one.
C6_WeekendIsFriday ==
  pc = "parsed"
    => /\ user_input = l_events_in_Berlin \o s_this_weekend
            => inputs.date = WeekdayOnOrAfter(today, 4, 0)
       /\ user_input = l_events_in_Berlin \o s_next_weekend
            => inputs.date = WeekdayOnOrAfter(today, 4, 1)

\* C6, amended: "this weekend" is the first Saturday on or after today (today
\* itself on a Saturday), "next weekend" the Saturday 7 days after that one.
C6_WeekendIsSaturday ==
  pc = "parsed"
    => /\ user_input = l_events_in_Berlin \o s_this_weekend
            => inputs.date = WeekdayOnOrAfter(today, 5, 0)
       /\ user_input = l_events_in_Berlin \o s_next_weekend
            => inputs.date = WeekdayOnOrAfter(today, 5, 1)

\* "next weekend" asked on a Saturday: the date is 7 days ahead
C6_Witness ==
  /\ pc = "parsed"
  /\ user_input = l_events_in_Berlin \o s_next_weekend
  /\ Weekday(today) = 5
  /\ inputs.date = Strftime(AddDays(today, 7), TRUE)

\* ds is `first`, whitespace, `second`
IsPhrase(ds, first, second) ==
  /\ Len(ds) > Len(first) + Len(second)
  /\ HasAt(ds, 1, first)
  /\ HasAt(ds, Len(ds) - Len(second) + 1, second)
  /\ \A j \in (Len(first) + 1)..(Len(ds) - Len(second)) : IsSpace(ds[j])

\* C7: when the leftmost date match is today, tomorrow, this week or next
\* week, the two words separated by any whitespace, the date is present and is
\* today, today + 1, today, today + 7.
C7_RelativePhraseGivesDate ==
  pc = "parsed"
    => LET ds == DateStrOf(Lower(user_input))
       IN  /\ ds = s_today => inputs.date = Strftime(today, TRUE)
           /\ ds = s_tomorrow => inputs.date = Strftime(AddDays(today, 1), TRUE)
           /\ IsPhrase(ds, s_this, s_week) => inputs.date = Strftime(today, TRUE)
           /\ IsPhrase(ds, s_next, s_week)
                => inputs.date = Strftime(AddDays(today, 7), TRUE)

\* d is a calendar date written YYYY-MM-DD
IsIsoDate(d) ==
  /\ Len(d) = 10
  /\ IsoLen(d, 1) = 10
  /\ ValidDate(IntOf(SubSeq(d, 1, 4)), IntOf(SubSeq(d, 6, 7)), IntOf(SubSeq(d, 9, 10)))

\* d is a calendar date written DD/MM/YYYY
IsDmyDate(d) ==
  /\ Len(d) = 10
  /\ DmyLen(d, 1) = 10
  /\ ValidDate(IntOf(SubSeq(d, 7, 10)), IntOf(SubSeq(d, 4, 5)), IntOf(SubSeq(d, 1, 2)))

\* C8: the date returned is absent or a calendar date YYYY-MM-DD; a literal
\* DD/MM/YYYY is converted; a literal that is no calendar date gives an absent
\* date and a warning, location and category still extracted.
C8_DateIsAbsentOrIso ==
  pc = "parsed"
    => LET t  == Lower(user_input)
           ds == DateStrOf(t)
       IN  /\ inputs.date = None \/ IsIsoDate(inputs.date)
           /\ IsDmyDate(ds)
                => inputs.date = SubSeq(ds, 7, 10) \o <<"-">> \o SubSeq(ds, 4, 5)
                                   \o <<"-">> \o SubSeq(ds, 1, 2)
           /\ (IsDateLiteral(ds) /\ ~IsIsoDate(ds) /\ ~IsDmyDate(ds))
                => /\ inputs.date = None
                   /\ inputs.warned
                   /\ inputs.location = LocationOf(t)
                   /\ inputs.preferences = PreferenceOf(t)

\* the table keywords that are words of t, by their place in the table
KeywordsIn(t) ==
  {i \in DOMAIN preference_keywords :
     \E q \in 1..Len(t) : IsWordAt(t, q, preference_keywords[i][1])}

\* C9: the category is the one the table lists for the keyword of the line,
\* for the first keyword in table order when the line has several, and is
\* absent when the line holds no keyword.
C9_CategoryFollowsTable ==
  pc = "parsed"
    => LET t  == Lower(user_input)
           ks == KeywordsIn(t)
       IN  /\ ks # {}
                => inputs.preferences =
                     preference_keywords[CHOOSE i \in ks : \A j \in ks : i <= j][2]
           /\ (\A i \in DOMAIN preference_keywords :
                 ~Contains(t, preference_keywords[i][1]))
                => inputs.preferences = None

\* C10 as stated: every GET carries a start and an end of its time window,
\* the day of the date when one is given.
C10_EveryRequestHasWindow ==
  \A i \in 1..Len(requests) :
    /\ {"startDateTime", "endDateTime"} \subseteq DOMAIN requests[i]
    /\ Truthy(args.date)
         => /\ requests[i].startDateTime
                 = args.date \o <<"T","0","0",":","0","0",":","0","0","Z">>
            /\ requests[i].endDateTime
                 = args.date \o <<"T","2","3",":","5","9",":","5","9","Z">>

\* C10, amended: a GET for a given date carries the window of that day,
\* {date}T00:00:00Z to {date}T23:59:59Z; a GET without a date carries no
\* startDateTime and no endDateTime at all, so it is not bounded in time.
C10_WindowOnlyWithDate ==
  \A i \in 1..Len(requests) :
    IF Truthy(args.date)
      THEN /\ {"startDateTime", "endDateTime"} \subseteq DOMAIN requests[i]
           /\ requests[i].startDateTime
                = args.date \o <<"T","0","0",":","0","0",":","0","0","Z">>
           /\ requests[i].endDateTime
                = args.date \o <<"T","2","3",":","5","9",":","5","9","Z">>
      ELSE {"startDateTime", "endDateTime"} \cap DOMAIN requests[i] = {}

\* a GET was sent for a call without a date, and holds no window
C10_Witness ==
  /\ pc = "returned"
  /\ args.date = None
  /\ Len(requests) = 1
  /\ "city" \in DOMAIN requests[1]
  /\ "startDateTime" \notin DOMAIN requests[1]

\* the upstream answered 200 with a JSON object that has no '_embedded' key, or
\* whose '_embedded' has no 'events' key
NoEventsContainer ==
  /\ upstream.kind = "JSON"
  /\ \/ "_embedded" \notin DOMAIN upstream.data
     \/ "events" \notin DOMAIN upstream.data["_embedded"]

\* C11: when the response has no '_embedded' key, or an '_embedded' without
\* 'events', search_events returns the empty list as a normal result: nothing
\* is raised, the value returned is a list and not an error object, and no
\* diagnostic is printed, by search_events or by the tool around it.
C11_NoContainerIsEmptyList ==
  (pc = "returned" /\ NoEventsContainer)
    => /\ outcome.raised = "none"
       /\ outcome.returned = [kind |-> "list", items |-> <<>>]
       /\ tool_result = [kind |-> "list", items |-> <<>>]
       /\ printed = <<>>
       /\ Len(requests) = 1

\* a call returned on a response without '_embedded'
C11_Witness ==
  /\ pc = "returned"
  /\ upstream.kind = "JSON"
  /\ "_embedded" \notin DOMAIN upstream.data
  /\ tool_result = [kind |-> "list", items |-> <<>>]

\* the price text the claim gives for an event: the literal when the event has
\* no price range, else min, max and currency of the first range (with 'N/A'
\* and 'USD' for a field the range lacks)
PriceOfFirstTier(event) ==
  LET tiers == IF "priceRanges" \in DOMAIN event THEN event["priceRanges"] ELSE <<>>
      first == tiers[1]
      field(k, default) == IF k \in DOMAIN first THEN first[k] ELSE default
  IN  IF Len(tiers) = 0 THEN <<"Price not available">>
      ELSE <<field("min", "N/A"), " - ", field("max", "N/A"), " ",
             field("currency", "USD")>>

\* C12: for every mapped event, price_range is the literal "Price not
\* available" exactly when the event has no price range (priceRanges missing
\* or empty); otherwise it is "{min} - {max} {currency}" of the first range,
\* whatever the later ranges hold.
C12_PriceFromFirstTierOnly ==
  (pc = "returned" /\ upstream.kind = "JSON" /\ outcome.returned.kind = "list"
     /\ "_embedded" \in DOMAIN upstream.data
     /\ "events" \in DOMAIN upstream.data["_embedded"])
    => LET events == upstream.data["_embedded"]["events"]
           recs   == outcome.returned.items
       IN  /\ Len(recs) = Len(events)
           /\ \A i \in 1..Len(events) :
                /\ recs[i].price_range = PriceOfFirstTier(events[i])
                /\ (recs[i].price_range = <<"Price not available">>)
                     <=> ("priceRanges" \notin DOMAIN events[i]
                            \/ Len(events[i]["priceRanges"]) = 0)

\* a response was mapped that holds an event with two different price ranges
\* and an event with none
C12_Witness ==
  /\ pc = "returned"
  /\ outcome.returned.kind = "list"
  /\ Len(outcome.returned.items) = 2
  /\ \E i, j \in 1..2 :
       LET events == upstream.data["_embedded"]["events"]
       IN  /\ "priceRanges" \in DOMAIN events[i]
           /\ Len(events[i]["priceRanges"]) = 2
           /\ events[i]["priceRanges"][1] # events[i]["priceRanges"][2]
           /\ outcome.returned.items[i].price_range
                = <<"20.0", " - ", "80.0", " ", "EUR">>
           /\ "priceRanges" \notin DOMAIN events[j]
           /\ outcome.returned.items[j].price_range = <<"Price not available">>

\* the text is a date YYYY-MM-DD (four, two and two digits) of the calendar
IsCalendarDate(s) ==
  /\ Len(s) = 10
  /\ \A i \in {1, 2, 3, 4, 6, 7, 9, 10} : s[i] \in Range(DigitChars)
  /\ s[5] = "-" /\ s[8] = "-"
  /\ ValidDate(IntOf(SubSeq(s, 1, 4)), IntOf(SubSeq(s, 6, 7)), IntOf(SubSeq(s, 9, 10)))

\* the answer of the forecast endpoint is one the claim lists as a failure: the
\* GET failed, the status was not a success, the object has no 'daily', or its
\* 'daily' lacks one of the five series asked for
WeatherFailure ==
  \/ upstream.kind \in {"ConnectionError", "HTTPError"}
  \/ /\ upstream.kind = "JSON"
     /\ \/ "daily" \notin DOMAIN upstream.data
        \/ \E k \in {"temperature_2m_max", "temperature_2m_min", "precipitation_sum",
                     "rain_sum", "snowfall_sum"} :
             k \notin DOMAIN upstream.data["daily"]

\* C13: open_meteo_weather never raises and always returns a JSON text, for
\* every date and every answer of the endpoint; a date that is not a valid
\* YYYY-MM-DD ("TBA" included) gives an error object and no GET is sent; a
\* failed GET, a non-success status, an answer without 'daily' and a 'daily'
\* lacking one of the requested series each give an error object.
C13_WeatherDegradesToErrorObject ==
  pc = "weather_returned"
    => /\ outcome.raised = "none"
       /\ outcome.returned.kind \in {"error", "object"}
       /\ ~IsCalendarDate(args.date)
            => (outcome.returned.kind = "error" /\ requests = <<>>)
       /\ (requests # <<>> /\ WeatherFailure)
            => outcome.returned.kind = "error"

====
